---- MODULE Spec2Model ----
(***************************************************************************)
(* Model of the spreadsheet engine: Sheet (sheet.cpp), Cell (cell.cpp),    *)
(* SheetStorage and IndexedStorage (sheet.h).                              *)
(*                                                                         *)
(* The formula parser and its AST (FormulaAST, common.h) are not part of   *)
(* the modelled sources.  A parsed formula is represented by the set of    *)
(* cells it references and by what its evaluation computes: the sum of the *)
(* referenced cells plus a constant ("=A1+3"), or a division by zero       *)
(* ("=1/0").                                                               *)
(*                                                                         *)
(* assert() is modelled as in a build with NDEBUG: the operation goes on,  *)
(* and the line of the first assertion whose condition was false is        *)
(* recorded in last.assert_line.  In a build with assertions the process   *)
(* aborts at that line.                                                    *)
(***************************************************************************)
EXTENDS Integers, Sequences, FiniteSets, TLC

\* ------------------------------------------------------------------------
\* Bounds of the model
\* ------------------------------------------------------------------------

\* largest number of cells one formula refers to
MaxRefs == 2
\* largest number of ClearCell calls that erase a cell
MaxClears == 2
\* the indices of the IndexedStorage that is used on its own are 0..MaxIndex
MaxIndex == 2

\* ------------------------------------------------------------------------
\* Position
\* ------------------------------------------------------------------------

MAX_ROWS == 16384
MAX_COLS == 16384

Pos(r, c) == [row |-> r, col |-> c]

IsValid(pos) ==
    /\ pos.row >= 0 /\ pos.col >= 0
    /\ pos.row < MAX_ROWS /\ pos.col < MAX_COLS

A1 == Pos(0, 0)
B1 == Pos(0, 1)
A2 == Pos(1, 0)

\* the positions the operations are called with
ValidPositions == { A1, B1, A2 }
InvalidPositions == { Pos(-1, 0), Pos(0, MAX_COLS) }
Positions == ValidPositions \cup InvalidPositions

PosLess(a, b) == a.row < b.row \/ (a.row = b.row /\ a.col < b.col)

\* the orders in which a std::unordered_set of positions can be iterated:
\* a set S is iterated in the order that `order` lists its elements
IterOrders ==
    { seq \in [1..Cardinality(ValidPositions) -> ValidPositions] :
        \A j, k \in 1..Cardinality(ValidPositions) : j # k => seq[j] # seq[k] }

\* the elements of S in the order of the iteration
InOrder(order, S) == SelectSeq(order, LAMBDA x : x \in S)

RECURSIVE SortedSeq(_)
\* the elements of a set of positions, ascending
SortedSeq(S) ==
    IF S = {} THEN << >>
    ELSE LET m == CHOOSE x \in S : \A y \in S : y = x \/ PosLess(x, y)
         IN << m >> \o SortedSeq(S \ {m})

\* ------------------------------------------------------------------------
\* Texts, cell contents and values
\* ------------------------------------------------------------------------

\* A string is the sequence of its characters, so that its first character
\* can be looked at and taken off: "'2" is << "'", "2" >> and "" is << >>
FORMULA_SIGN == "="
ESCAPE_SIGN == "'"

\* std::monostate / the empty string
T_Empty == [k |-> "empty", s |-> << >>, op |-> "", refs |-> {}, c |-> 0]
\* a literal text, str being its characters
T_Text(str) == [k |-> "text", s |-> str, op |-> "", refs |-> {}, c |-> 0]
\* "=" followed by an expression the parser accepts
T_Formula(o, rs, n) == [k |-> "formula", s |-> << >>, op |-> o, refs |-> rs, c |-> n]
\* "=" followed by an expression the parser rejects
T_Bad == [k |-> "bad", s |-> << FORMULA_SIGN, ")" >>, op |-> "", refs |-> {}, c |-> 0]

\* the texts given to SetCell: "", "2", "4", "x", "'2", "=)", "=1/0" and the
\* sums "=r1+..+3" over one to MaxRefs cells
Texts ==
    { T_Empty, T_Text(<< "2" >>), T_Text(<< "4" >>), T_Text(<< "x" >>),
      T_Text(<< ESCAPE_SIGN, "2" >>), T_Bad, T_Formula("div0", {}, 1) }
    \cup { T_Formula("sum", rs, 3) :
             rs \in { x \in SUBSET ValidPositions : x # {} /\ Cardinality(x) <= MaxRefs } }

\* Cell::Value and the cache: nothing, a string (its characters), a number
\* or a FormulaError (e names it)
V_None == [t |-> "none", s |-> << >>, n |-> 0, e |-> ""]
V_Str(str) == [t |-> "str", s |-> str, n |-> 0, e |-> ""]
V_Num(num) == [t |-> "num", s |-> << >>, n |-> num, e |-> ""]
V_Err(err) == [t |-> "err", s |-> << >>, n |-> 0, e |-> err]

\* a cell freshly constructed: no content, no cached value
NewCell == [value_ |-> T_Empty, cache_ |-> V_None]

\* ------------------------------------------------------------------------
\* IndexedStorage: data_ (index -> value) and indices_ (ascending indices)
\* ------------------------------------------------------------------------

EmptyMap == [i \in {} |-> i]

IS_New == [data_ |-> EmptyMap, indices_ |-> << >>]

\* std::lower_bound: the first place whose index is not less than index
LowerBound(indices, index) ==
    IF \E k \in 1..Len(indices) : indices[k] >= index
    THEN CHOOSE k \in 1..Len(indices) :
             /\ indices[k] >= index
             /\ \A j \in 1..(k - 1) : indices[j] < index
    ELSE Len(indices) + 1

InsertAt(seq, k, x) == SubSeq(seq, 1, k - 1) \o << x >> \o SubSeq(seq, k, Len(seq))
EraseAt(seq, k) == SubSeq(seq, 1, k - 1) \o SubSeq(seq, k + 1, Len(seq))

IS_Count(st, index) == IF index \in DOMAIN st.data_ THEN 1 ELSE 0

\* operator[] that puts a missing index at the end of indices_
IS_Subscript_Append(st, index, dflt) ==
    IF index \in DOMAIN st.data_ THEN st
    ELSE [data_ |-> (index :> dflt) @@ st.data_,
          indices_ |-> Append(st.indices_, index)]

\* operator[]: the storage after the access; a missing index is inserted
\* with a default constructed value
IS_Subscript(st, index, dflt) ==
    IF index \in DOMAIN st.data_ THEN st
    ELSE [data_ |-> (index :> dflt) @@ st.data_,
          indices_ |-> InsertAt(st.indices_, LowerBound(st.indices_, index), index)]

\* st[index] = value
IS_Assign(st, index, value, dflt) ==
    LET s1 == IS_Subscript(st, index, dflt)
    IN [s1 EXCEPT !.data_ = [i \in DOMAIN s1.data_ |-> IF i = index THEN value ELSE s1.data_[i]]]

IS_Empty(st) == DOMAIN st.data_ = {}

IS_Size(st) == Cardinality(DOMAIN st.data_)

\* Erase that drops the last of indices_ instead of the place of index
IS_Erase_PopBack(st, index) ==
    [data_ |-> [i \in (DOMAIN st.data_) \ {index} |-> st.data_[i]],
     indices_ |-> SubSeq(st.indices_, 1, Len(st.indices_) - 1)]

\* Erase of a present index
IS_Erase(st, index) ==
    [data_ |-> [i \in (DOMAIN st.data_) \ {index} |-> st.data_[i]],
     indices_ |-> EraseAt(st.indices_, LowerBound(st.indices_, index))]

IS_BackIndex(st) == st.indices_[Len(st.indices_)]

\* At(index) of a storage that can be modified: [result, st, value]
IS_At(st, index) ==
    IF index \notin DOMAIN st.data_
    THEN [result |-> "NotFound", st |-> st, value |-> ""]
    ELSE [result |-> "ok", st |-> st, value |-> st.data_[index]]

\* At(index) through a const reference: it is operator[] on the storage
\* with the const cast away
IS_AtConst(st, index, dflt) ==
    LET s1 == IS_Subscript(st, index, dflt)
    IN [result |-> "ok", st |-> s1, value |-> s1.data_[index]]

\* Erase(index): [result, st]
IS_EraseOp(st, index) ==
    IF index \notin DOMAIN st.data_
    THEN [result |-> "NotFound", st |-> st]
    ELSE [result |-> "ok", st |-> IS_Erase(st, index)]

IS_Clear(st) == [data_ |-> EmptyMap, indices_ |-> << >>]

\* a.Swap(b): [a, b] after the call
IS_Swap(a, b) ==
    [a |-> [data_ |-> b.data_, indices_ |-> b.indices_],
     b |-> [data_ |-> a.data_, indices_ |-> a.indices_]]

\* the (index, value) pairs in the order of the iterator
IS_Items(st) == [k \in 1..Len(st.indices_) |-> << st.indices_[k], st.data_[st.indices_[k]] >>]

\* ------------------------------------------------------------------------
\* SheetStorage: rows_ is an IndexedStorage of IndexedStorage of cells
\* ------------------------------------------------------------------------

\* Get(pos) # nullptr, for a valid pos
SS_Has(rows, pos) ==
    /\ IS_Count(rows, pos.row) # 0
    /\ IS_Count(rows.data_[pos.row], pos.col) # 0

\* *Get(pos), when SS_Has
SS_Get(rows, pos) == rows.data_[pos.row].data_[pos.col]

\* Set that stores no cell without content
SS_Set_SkipEmpty(rows, pos, data) ==
    IF ~IsValid(pos) THEN [result |-> "InvalidPosition", rows |-> rows]
    ELSE IF data.value_.k = "empty" THEN [result |-> "ok", rows |-> rows]
    ELSE LET r1 == IS_Subscript(rows, pos.row, IS_New)
             row == IS_Assign(r1.data_[pos.row], pos.col, data, NewCell)
         IN [result |-> "ok",
             rows |-> [r1 EXCEPT !.data_ =
                         [i \in DOMAIN r1.data_ |->
                             IF i = pos.row THEN row ELSE r1.data_[i]]]]

\* Get that looks into the row without asking whether rows_ holds it
SS_GetOp_NoRowCount(rows, pos) ==
    IF ~IsValid(pos) THEN [result |-> "InvalidPosition", rows |-> rows, found |-> FALSE]
    ELSE LET r1 == IS_Subscript(rows, pos.row, IS_New)
         IN [result |-> "ok", rows |-> r1,
             found |-> IS_Count(r1.data_[pos.row], pos.col) # 0]

\* Get that takes the cell of a row without asking whether the row holds it
SS_GetOp_NoColCount(rows, pos) ==
    IF ~IsValid(pos) THEN [result |-> "InvalidPosition", rows |-> rows, found |-> FALSE]
    ELSE IF IS_Count(rows, pos.row) = 0
    THEN [result |-> "ok", rows |-> rows, found |-> FALSE]
    ELSE LET row1 == IS_Subscript(rows.data_[pos.row], pos.col, NewCell)
         IN [result |-> "ok",
             rows |-> [rows EXCEPT !.data_ =
                         [i \in DOMAIN rows.data_ |->
                             IF i = pos.row THEN row1 ELSE rows.data_[i]]],
             found |-> TRUE]

\* Get(pos): [result, rows, found]; rows is the grid after the call, and
\* found tells whether the pointer returned is not null. The two const
\* operator[] are operator[] with the const cast away, called after Count
SS_GetOp(rows, pos) ==
    IF ~IsValid(pos) THEN [result |-> "InvalidPosition", rows |-> rows, found |-> FALSE]
    ELSE IF IS_Count(rows, pos.row) = 0
    THEN [result |-> "ok", rows |-> rows, found |-> FALSE]
    ELSE LET r1 == IS_Subscript(rows, pos.row, IS_New)
             cells_row == r1.data_[pos.row]
         IN IF IS_Count(cells_row, pos.col) = 0
            THEN [result |-> "ok", rows |-> r1, found |-> FALSE]
            ELSE LET row1 == IS_Subscript(cells_row, pos.col, NewCell)
                 IN [result |-> "ok",
                     rows |-> [r1 EXCEPT !.data_ =
                                 [i \in DOMAIN r1.data_ |->
                                     IF i = pos.row THEN row1 ELSE r1.data_[i]]],
                     found |-> TRUE]

\* Set(pos, data): [result, rows]; CheckValid(pos), then
\* rows_[pos.row][pos.col] = data
SS_Set(rows, pos, data) ==
    IF ~IsValid(pos) THEN [result |-> "InvalidPosition", rows |-> rows]
    ELSE LET r1 == IS_Subscript(rows, pos.row, IS_New)
             row == IS_Assign(r1.data_[pos.row], pos.col, data, NewCell)
         IN [result |-> "ok",
             rows |-> [r1 EXCEPT !.data_ =
                         [i \in DOMAIN r1.data_ |->
                             IF i = pos.row THEN row ELSE r1.data_[i]]]]

\* Clear(pos) that keeps a row it has emptied
SS_Clear_KeepRow(rows, pos) ==
    IF ~IsValid(pos) THEN [result |-> "InvalidPosition", rows |-> rows]
    ELSE IF IS_Count(rows, pos.row) > 0 /\ IS_Count(rows.data_[pos.row], pos.col) > 0
    THEN [result |-> "ok",
          rows |-> [rows EXCEPT !.data_ =
                      [i \in DOMAIN rows.data_ |->
                          IF i = pos.row THEN IS_Erase(rows.data_[i], pos.col)
                          ELSE rows.data_[i]]]]
    ELSE [result |-> "ok", rows |-> rows]

\* Clear(pos): [result, rows]; CheckValid(pos), then the cell is erased from
\* its row and an emptied row from rows_
SS_Clear(rows, pos) ==
    IF ~IsValid(pos) THEN [result |-> "InvalidPosition", rows |-> rows]
    ELSE IF IS_Count(rows, pos.row) > 0
    THEN LET row == rows.data_[pos.row]
         IN IF IS_Count(row, pos.col) > 0
            THEN LET row1 == IS_Erase(row, pos.col)
                 IN IF IS_Empty(row1)
                    THEN [result |-> "ok", rows |-> IS_Erase(rows, pos.row)]
                    ELSE [result |-> "ok",
                          rows |-> [rows EXCEPT !.data_ =
                                      [i \in DOMAIN rows.data_ |->
                                          IF i = pos.row THEN row1 ELSE rows.data_[i]]]]
            ELSE [result |-> "ok", rows |-> rows]
    ELSE [result |-> "ok", rows |-> rows]

\* Clear(): rows_.Clear()
SS_ClearAll(rows) == IS_Clear(rows)

RECURSIVE SS_MaxCols(_, _, _)
\* the loop of GetPrintableSize over the rows, in ascending index order
SS_MaxCols(rows, k, cols) ==
    IF k > Len(rows.indices_) THEN cols
    ELSE LET row == rows.data_[rows.indices_[k]]
             c == IF ~IS_Empty(row) THEN IS_BackIndex(row) + 1 ELSE 0
         IN SS_MaxCols(rows, k + 1, IF c > cols THEN c ELSE cols)

SS_GetPrintableSize(rows) ==
    IF ~IS_Empty(rows)
    THEN [rows |-> IS_BackIndex(rows) + 1, cols |-> SS_MaxCols(rows, 1, 0)]
    ELSE [rows |-> 0, cols |-> 0]

\* the positions that hold a cell
StoredPositions(rows) ==
    { p \in ValidPositions : SS_Has(rows, p) }

\* ------------------------------------------------------------------------
\* Cell
\* ------------------------------------------------------------------------

\* Cell::Set that stores the empty string as a text
Cell_Set_EmptyAsText(cell, text) ==
    IF text.k = "bad"
    THEN [ok |-> FALSE, cell |-> cell]
    ELSE [ok |-> TRUE,
          cell |-> [cell EXCEPT !.value_ = IF text.k = "empty" THEN T_Text(<< >>) ELSE text]]

\* Cell::Set on a cell: [ok, cell]; ok is FALSE when the parser throws
Cell_Set(cell, text) ==
    IF text.k = "empty"
    THEN [ok |-> TRUE, cell |-> [value_ |-> T_Empty, cache_ |-> V_None]]
    ELSE IF text.k = "bad"
    THEN [ok |-> FALSE, cell |-> cell]
    ELSE [ok |-> TRUE, cell |-> [cell EXCEPT !.value_ = text]]

\* GetText: the text of the content
Cell_GetText(cell) == cell.value_

Cell_GetReferencedCells(cell) ==
    IF cell.value_.k = "formula" THEN cell.value_.refs ELSE {}

\* InvalidateCache that leaves the cached value in place
Cell_InvalidateCache_Keep(cell) == cell

Cell_InvalidateCache(cell) == [cell EXCEPT !.cache_ = V_None]

\* the cell at a stored position with its cache replaced (cache_ is mutable)
SetCache(rows, pos, v) ==
    [rows EXCEPT !.data_[pos.row].data_[pos.col].cache_ = v]

\* ------------------------------------------------------------------------
\* Sheet: the refs_from_ graph
\* ------------------------------------------------------------------------

\* refs_from_.count(q) > 0 && refs_from_.at(q).count(p) > 0
HasRef(refs, q, p) == q \in DOMAIN refs /\ p \in refs[q]

\* refs_from_[q].insert(p)
AddRef(refs, q, p) ==
    IF q \in DOMAIN refs
    THEN [x \in DOMAIN refs |-> IF x = q THEN refs[x] \cup {p} ELSE refs[x]]
    ELSE (q :> {p}) @@ refs

\* DelRef that keeps the key of a set that became empty
DelRef_KeepKey(refs, q, p) ==
    IF q \notin DOMAIN refs THEN [ub |-> TRUE, refs |-> refs]
    ELSE [ub |-> FALSE,
          refs |-> [x \in DOMAIN refs |-> IF x = q THEN refs[x] \ {p} ELSE refs[x]]]

\* one pass of the loop "remove refs": [ub, refs].
\* it = refs_from_.find(q); it->second.erase(p); if the set is empty,
\* refs_from_.erase(it). Without the key q, it is end() and its dereference
\* is undefined behaviour (ub): the builds end in a segmentation fault
DelRef(refs, q, p) ==
    IF q \notin DOMAIN refs THEN [ub |-> TRUE, refs |-> refs]
    ELSE IF refs[q] \ {p} = {}
    THEN [ub |-> FALSE, refs |-> [x \in (DOMAIN refs) \ {q} |-> refs[x]]]
    ELSE [ub |-> FALSE,
          refs |-> [x \in DOMAIN refs |-> IF x = q THEN refs[x] \ {p} ELSE refs[x]]]

RECURSIVE AddRefs(_, _, _)
AddRefs(refs, seq, p) ==
    IF seq = << >> THEN refs
    ELSE AddRefs(AddRef(refs, Head(seq), p), Tail(seq), p)

RECURSIVE DelRefs(_, _, _)
\* the loop "remove refs": [ub, refs]; it ends where a pass is undefined
DelRefs(refs, seq, p) ==
    IF seq = << >> THEN [ub |-> FALSE, refs |-> refs]
    ELSE LET d == DelRef(refs, Head(seq), p)
         IN IF d.ub THEN d ELSE DelRefs(d.refs, Tail(seq), p)

\* one pass of the while loop of IsCircularReference, for a queue that is
\* not empty; queue.back() is the last element: [found, queue, discovered].
\* The referrers of v are pushed in the order refs_from_[v] is iterated
ICR_Step(refs, pos, refs_del, queue, discovered, order) ==
    LET v == queue[Len(queue)]
        rest == SubSeq(queue, 1, Len(queue) - 1)
    IN IF v \in discovered
       THEN [found |-> TRUE, queue |-> rest, discovered |-> discovered]
       ELSE LET adj == IF v \in DOMAIN refs
                       THEN { u \in refs[v] : ~(u = pos /\ v \in refs_del) }
                       ELSE {}
            IN [found |-> FALSE, queue |-> rest \o InOrder(order, adj),
                discovered |-> discovered \cup {v}]

RECURSIVE ICR_Walk(_, _, _, _, _, _)
\* the while loop of IsCircularReference
ICR_Walk(refs, pos, refs_del, queue, discovered, order) ==
    IF queue = << >> THEN FALSE
    ELSE LET s == ICR_Step(refs, pos, refs_del, queue, discovered, order)
         IN IF s.found THEN TRUE
            ELSE ICR_Walk(refs, pos, refs_del, s.queue, s.discovered, order)

\* IsCircularReference whose walk is not seeded with pos
IsCircularReference_NoSeed(refs, pos, ref_add, refs_del, order) ==
    ICR_Walk(refs, pos, refs_del, << ref_add >>, {}, order)

IsCircularReference(refs, pos, ref_add, refs_del, order) ==
    ICR_Walk(refs, pos, refs_del, << pos, ref_add >>, {}, order)

\* the first element of a sequence of lines that is not 0, 0 if none is
FirstNonZero(lines) ==
    IF \E k \in 1..Len(lines) : lines[k] # 0
    THEN lines[CHOOSE k \in 1..Len(lines) :
                   lines[k] # 0 /\ \A j \in 1..(k - 1) : lines[j] = 0]
    ELSE 0

\* the assertions of UpdateRefs and IsCircularReference, in the order the
\* program comes to them: the loop over new_refs (lines 134, 138), the loop
\* over old_refs (147, 151), then the entry of IsCircularReference for the
\* first added reference (183). The line of the first one whose condition
\* is false, 0 if there is none
FirstFailedAssert(refs, pos, old_refs, new_refs, order) ==
    LET refs_add == new_refs \ old_refs
        refs_del == old_refs \ new_refs
        new_seq == InOrder(order, new_refs)
        old_seq == InOrder(order, old_refs)
        new_lines == [k \in 1..Len(new_seq) |->
                        IF new_seq[k] \notin old_refs
                        THEN IF HasRef(refs, new_seq[k], pos) THEN 134 ELSE 0
                        ELSE IF ~HasRef(refs, new_seq[k], pos) THEN 138 ELSE 0]
        old_lines == [k \in 1..Len(old_seq) |->
                        IF old_seq[k] \notin new_refs
                        THEN IF ~HasRef(refs, old_seq[k], pos) THEN 147 ELSE 0
                        ELSE IF HasRef(refs, old_seq[k], pos) THEN 151 ELSE 0]
    IN IF FirstNonZero(new_lines) # 0 THEN FirstNonZero(new_lines)
       ELSE IF FirstNonZero(old_lines) # 0 THEN FirstNonZero(old_lines)
       ELSE IF refs_add # {} /\ pos \in refs_del THEN 183
       ELSE 0

\* UpdateRefs that adds the references before it checks them for cycles
UpdateRefs_EarlyCommit(refs, pos, old_refs, new_refs, order) ==
    LET refs_add == new_refs \ old_refs
        refs_del == old_refs \ new_refs
        line == FirstFailedAssert(refs, pos, old_refs, new_refs, order)
        added == AddRefs(refs, InOrder(order, refs_add), pos)
        d == DelRefs(added, InOrder(order, refs_del), pos)
    IN IF \E ref_add \in refs_add :
             IsCircularReference(refs, pos, ref_add, refs_del, order)
       THEN [result |-> "CircularDependency", refs |-> added, assert_line |-> line]
       ELSE [result |-> IF d.ub THEN "crash" ELSE "ok", refs |-> d.refs,
             assert_line |-> line]

\* UpdateRefs: [result, refs, assert_line]; the result is "crash" where the
\* loop "remove refs" runs into undefined behaviour
UpdateRefs(refs, pos, old_refs, new_refs, order) ==
    LET refs_add == new_refs \ old_refs
        refs_del == old_refs \ new_refs
        line == FirstFailedAssert(refs, pos, old_refs, new_refs, order)
        d == DelRefs(AddRefs(refs, InOrder(order, refs_add), pos),
                     InOrder(order, refs_del), pos)
    IN IF \E ref_add \in refs_add :
             IsCircularReference(refs, pos, ref_add, refs_del, order)
       THEN [result |-> "CircularDependency", refs |-> refs, assert_line |-> line]
       ELSE [result |-> IF d.ub THEN "crash" ELSE "ok", refs |-> d.refs,
             assert_line |-> line]

\* a pass of the loop of InvalidateCache that pushes no referrer
IC_Step_NoPush(rows, refs, queue, discovered, order) ==
    LET v == queue[Len(queue)]
    IN [rows |-> IF SS_Has(rows, v)
                 THEN SetCache(rows, v, Cell_InvalidateCache(SS_Get(rows, v)).cache_)
                 ELSE rows,
        queue |-> SubSeq(queue, 1, Len(queue) - 1),
        discovered |-> discovered \cup {v}]

\* one pass of the while loop of InvalidateCache, for a queue that is not
\* empty: [rows, queue, discovered]. The referrers of v are pushed in the
\* order refs_from_[v] is iterated
IC_Step(rows, refs, queue, discovered, order) ==
    LET v == queue[Len(queue)]
        rest == SubSeq(queue, 1, Len(queue) - 1)
        rows1 == IF SS_Has(rows, v)
                 THEN SetCache(rows, v, Cell_InvalidateCache(SS_Get(rows, v)).cache_)
                 ELSE rows
        disc1 == discovered \cup {v}
        adj == IF v \in DOMAIN refs
               THEN { u \in refs[v] : u \notin disc1 }
               ELSE {}
    IN [rows |-> rows1, queue |-> rest \o InOrder(order, adj), discovered |-> disc1]

RECURSIVE IC_Walk(_, _, _, _, _)
\* the while loop of InvalidateCache: the grid with the caches cleared
IC_Walk(rows, refs, queue, discovered, order) ==
    IF queue = << >> THEN rows
    ELSE LET s == IC_Step(rows, refs, queue, discovered, order)
         IN IC_Walk(s.rows, refs, s.queue, s.discovered, order)

\* InvalidateCache that clears the cache of the cell at pos only
InvalidateCache_Shallow(rows, refs, pos, order) ==
    IF SS_Has(rows, pos) THEN SetCache(rows, pos, V_None) ELSE rows

InvalidateCache(rows, refs, pos, order) == IC_Walk(rows, refs, << pos >>, {}, order)

\* ------------------------------------------------------------------------
\* Sheet::SetCell and Sheet::ClearCell
\* ------------------------------------------------------------------------

Max(a, b) == IF a > b THEN a ELSE b

RECURSIVE SetCellOp(_, _, _, _, _, _)
RECURSIVE Materialise(_, _, _, _)

\* SetCell without the loop that creates the referenced cells
Materialise_Skip(st, seq, depth, order) == st

\* SetCell(pos, text) called at recursion depth `depth` (0 for the caller's
\* call): the outcome, the grid and the graph it leaves, the first failed
\* assertion, the deepest recursion reached and whether a recursive call
\* changed the graph, and new_refs if the call came to compute it. The
\* unordered sets of the call are iterated as `order` tells
SetCellOp(rows, refs, pos, text, depth, order) ==
    LET c == Cell_Set(NewCell, text)
        unchanged == [rows |-> rows, refs |-> refs, assert_line |-> 0,
                      depth |-> depth, nested_edges |-> FALSE, new_refs |-> {}]
    IN IF ~c.ok
       THEN [result |-> "FormulaSyntax"] @@ unchanged
       ELSE IF ~IsValid(pos)
       THEN [result |-> "InvalidPosition"] @@ unchanged
       ELSE LET old_refs == IF SS_Has(rows, pos)
                            THEN Cell_GetReferencedCells(SS_Get(rows, pos))
                            ELSE {}
                new_refs == Cell_GetReferencedCells(c.cell)
                u == UpdateRefs(refs, pos, old_refs, new_refs, order)
            IN IF u.result # "ok"
               THEN [result |-> u.result, refs |-> u.refs, assert_line |-> u.assert_line,
                     new_refs |-> new_refs] @@ unchanged
               ELSE LET m == Materialise([result |-> "ok", rows |-> rows, refs |-> u.refs,
                                          assert_line |-> u.assert_line, depth |-> depth,
                                          nested_edges |-> FALSE, new_refs |-> new_refs],
                                         InOrder(order, new_refs), depth, order)
                    IN IF m.result # "ok" THEN m
                       ELSE [m EXCEPT !.rows = InvalidateCache(
                                                   SS_Set(m.rows, pos, c.cell).rows,
                                                   m.refs, pos, order)]

\* the loop that sets every referenced cell to the empty text, also one
\* that exists
Materialise_Overwrite(st, seq, depth, order) ==
    IF seq = << >> \/ st.result # "ok" THEN st
    ELSE LET r == SetCellOp(st.rows, st.refs, Head(seq), T_Empty, depth + 1, order)
         IN Materialise([st EXCEPT !.result = r.result, !.rows = r.rows, !.refs = r.refs],
                        Tail(seq), depth, order)

\* the loop "create empty cell for every reference"
Materialise(st, seq, depth, order) ==
    IF seq = << >> \/ st.result # "ok" THEN st
    ELSE LET ref == Head(seq)
         IN IF ~IsValid(ref)
            THEN [st EXCEPT !.result = "InvalidPosition"]
            ELSE IF SS_Has(st.rows, ref)
            THEN Materialise(st, Tail(seq), depth, order)
            ELSE LET r == SetCellOp(st.rows, st.refs, ref, T_Empty, depth + 1, order)
                 IN Materialise([result |-> r.result, rows |-> r.rows, refs |-> r.refs,
                                 assert_line |-> IF st.assert_line # 0 THEN st.assert_line
                                                 ELSE r.assert_line,
                                 depth |-> Max(st.depth, r.depth),
                                 nested_edges |-> st.nested_edges \/ r.nested_edges
                                                  \/ r.refs # st.refs,
                                 new_refs |-> st.new_refs],
                                Tail(seq), depth, order)

\* ClearCell that erases the cell and leaves refs_from_ as it is
ClearCellOp_NoRefs(rows, refs, pos, order) ==
    IF ~IsValid(pos)
    THEN [result |-> "InvalidPosition", rows |-> rows, refs |-> refs, assert_line |-> 0]
    ELSE [result |-> "ok", rows |-> SS_Clear(rows, pos).rows, refs |-> refs, assert_line |-> 0]

\* ClearCell(pos): [result, rows, refs, assert_line]
ClearCellOp(rows, refs, pos, order) ==
    IF ~IsValid(pos)
    THEN [result |-> "InvalidPosition", rows |-> rows, refs |-> refs, assert_line |-> 0]
    ELSE IF SS_Has(rows, pos)
    THEN LET u == UpdateRefs(refs, pos, Cell_GetReferencedCells(SS_Get(rows, pos)), {},
                             order)
         IN [result |-> u.result,
             rows |-> IF u.result = "ok" THEN SS_Clear(rows, pos).rows ELSE rows,
             refs |-> u.refs, assert_line |-> u.assert_line]
    ELSE [result |-> "ok", rows |-> rows, refs |-> refs, assert_line |-> 0]

\* ------------------------------------------------------------------------
\* Cell::GetValue and the evaluation of a formula
\* ------------------------------------------------------------------------

\* the number a text converts to
IsNumber(str) == str \in { << "2" >>, << "4" >> }
ToNumber(str) == IF str = << "2" >> THEN 2 ELSE 4

\* the value of a text cell: the text without a leading escape sign
TextValue(str) ==
    IF Len(str) > 0 /\ Head(str) = ESCAPE_SIGN THEN Tail(str) ELSE str

RECURSIVE Cell_GetValue(_, _)
RECURSIVE Execute(_, _, _)

\* the outcome res of a call, with n more calls of Formula::Evaluate counted
Evaluated(res, n) == [res EXCEPT !.evals = @ + n]

\* GetValue that returns the value of a formula and does not keep it
Cell_GetValue_NoStore(rows, pos) ==
    LET cell == SS_Get(rows, pos)
    IN IF cell.value_.k = "empty" THEN [rows |-> rows, value |-> V_Str(<< >>), evals |-> 0]
       ELSE IF cell.value_.k = "text"
       THEN [rows |-> rows, value |-> V_Str(TextValue(cell.value_.s)), evals |-> 0]
       ELSE IF cell.cache_.t # "none" THEN [rows |-> rows, value |-> cell.cache_, evals |-> 0]
       ELSE LET e == IF cell.value_.op = "div0"
                     THEN [rows |-> rows, value |-> V_Err("#DIV/0!"), evals |-> 0]
                     ELSE Execute(rows, SortedSeq(cell.value_.refs), cell.value_.c)
            IN Evaluated(e, 1)

\* GetValue of the cell stored at pos: [rows, value, evals]; rows carries the
\* caches the call has filled, evals counts the calls of Formula::Evaluate
Cell_GetValue(rows, pos) ==
    LET cell == SS_Get(rows, pos)
    IN IF cell.value_.k = "empty" THEN [rows |-> rows, value |-> V_Str(<< >>), evals |-> 0]
       ELSE IF cell.value_.k = "text"
       THEN [rows |-> rows, value |-> V_Str(TextValue(cell.value_.s)), evals |-> 0]
       ELSE IF cell.cache_.t # "none" THEN [rows |-> rows, value |-> cell.cache_, evals |-> 0]
       ELSE LET e == IF cell.value_.op = "div0"
                     THEN [rows |-> rows, value |-> V_Err("#DIV/0!"), evals |-> 0]
                     ELSE Execute(rows, SortedSeq(cell.value_.refs), cell.value_.c)
            IN [rows |-> SetCache(e.rows, pos, e.value), value |-> e.value,
                evals |-> e.evals + 1]

\* the sum of the cells in seq added to acc; the first operand that is not a
\* number ends the evaluation with its error
Execute(rows, seq, acc) ==
    IF seq = << >> THEN [rows |-> rows, value |-> V_Num(acc), evals |-> 0]
    ELSE LET ref == Head(seq)
         IN IF ~SS_Has(rows, ref) THEN Execute(rows, Tail(seq), acc)
            ELSE LET r == Cell_GetValue(rows, ref)
                 IN IF r.value.t = "num"
                    THEN Evaluated(Execute(r.rows, Tail(seq), acc + r.value.n), r.evals)
                    ELSE IF r.value.t = "err" THEN r
                    ELSE IF r.value.s = << >>
                    THEN Evaluated(Execute(r.rows, Tail(seq), acc), r.evals)
                    ELSE IF IsNumber(r.value.s)
                    THEN Evaluated(Execute(r.rows, Tail(seq), acc + ToNumber(r.value.s)),
                                   r.evals)
                    ELSE [rows |-> r.rows, value |-> V_Err("#VALUE!"), evals |-> r.evals]

RECURSIVE Sheet_Print(_, _, _, _, _, _, _, _)
\* Sheet::Print from the cell (row, col) of the printable area on. The
\* printer is that of PrintValues ("values") or that of PrintTexts
\* ("texts"). line holds what has been written on the current line and out
\* the lines ended: per column the item handed to the stream, the empty
\* string where no cell is stored and nothing is written.
\* [result, rows, output, evals]
Sheet_Print(rows, printer, size, row, col, line, out, evals) ==
    IF row >= size.rows
    THEN [result |-> "ok", rows |-> rows, output |-> out, evals |-> evals]
    ELSE IF col >= size.cols
    THEN Sheet_Print(rows, printer, size, row + 1, 0, << >>, Append(out, line), evals)
    ELSE LET g == SS_GetOp(rows, Pos(row, col))
         IN IF g.result # "ok"
            THEN [result |-> g.result, rows |-> g.rows, output |-> Append(out, line),
                  evals |-> evals]
            ELSE IF ~g.found
            THEN Sheet_Print(g.rows, printer, size, row, col + 1,
                       Append(line, IF printer = "values" THEN V_Str(<< >>) ELSE T_Empty),
                       out, evals)
            ELSE IF printer = "values"
            THEN LET r == Cell_GetValue(g.rows, Pos(row, col))
                 IN Sheet_Print(r.rows, printer, size, row, col + 1, Append(line, r.value),
                          out, evals + r.evals)
            ELSE Sheet_Print(g.rows, printer, size, row, col + 1,
                       Append(line, Cell_GetText(SS_Get(g.rows, Pos(row, col)))),
                       out, evals)

\* Sheet::PrintValues(output): [result, rows, output, evals]
PrintValuesOp(rows) ==
    Sheet_Print(rows, "values", SS_GetPrintableSize(rows), 0, 0, << >>, << >>, 0)

\* Sheet::PrintTexts(output): [result, rows, output, evals]
PrintTextsOp(rows) ==
    Sheet_Print(rows, "texts", SS_GetPrintableSize(rows), 0, 0, << >>, << >>, 0)

\* ------------------------------------------------------------------------
\* State and actions
\* ------------------------------------------------------------------------

VARIABLES
    rows_,        \* Sheet::cells_ (SheetStorage::rows_)
    refs_from_,   \* Sheet::refs_from_
    last,         \* the last operation called, its outcome and, for SetCell,
                  \* the new_refs it computed
    clears,       \* the number of ClearCell calls that erased a cell
    stor,         \* an IndexedStorage<std::string> used on its own
    other,        \* the storage that stor is swapped with
    islast,       \* the last operation called on stor and its outcome
    walk          \* a depth-first walk of the sheet taken one pass of its
                  \* loop at a time: its inputs, queue and discovered set

storVars == << stor, other, islast >>
vars == << rows_, refs_from_, last, clears, stor, other, islast, walk >>

NoOp == [op |-> "none", pos |-> Pos(0, 0), result |-> "ok", assert_line |-> 0,
         depth |-> 0, nested_edges |-> FALSE, value |-> V_None, refs |-> {},
         evals |-> 0, found |-> FALSE, text |-> T_Empty,
         size |-> [rows |-> 0, cols |-> 0], output |-> << >>]

NoStorOp == [op |-> "none", index |-> 0, result |-> "ok", value |-> ""]

NoWalk == [kind |-> "none", status |-> "idle", refs |-> EmptyMap, rows |-> IS_New,
           pos |-> A1, ref_add |-> A1, refs_del |-> {}, queue |-> << >>,
           discovered |-> {}, result |-> FALSE]

Init ==
    /\ rows_ = IS_New
    /\ refs_from_ = EmptyMap
    /\ last = NoOp
    /\ clears = 0
    /\ stor = IS_New
    /\ other = IS_New
    /\ islast = NoStorOp
    /\ walk = NoWalk

\* a call is made when the caller has taken the outcome of the one before
Idle == last.op = "none"

\* SetCell(pos, text): the call leaves one of the outcomes that the orders
\* in which its unordered sets can be iterated give
SetCell(pos, text) ==
    /\ Idle
    /\ \E r \in { SetCellOp(rows_, refs_from_, pos, text, 0, order) : order \in IterOrders } :
       /\ rows_' = r.rows
       /\ refs_from_' = r.refs
       /\ last' = [op |-> "SetCell", pos |-> pos, result |-> r.result,
                   assert_line |-> r.assert_line, depth |-> r.depth,
                   nested_edges |-> r.nested_edges, value |-> V_None,
                   refs |-> r.new_refs, evals |-> 0, found |-> FALSE,
                   text |-> T_Empty, size |-> [rows |-> 0, cols |-> 0],
                   output |-> << >>]
       /\ UNCHANGED clears
       /\ UNCHANGED << storVars, walk >>

\* ClearCell(pos), likewise over the iteration orders
ClearCell(pos) ==
    /\ Idle
    /\ \E r \in { ClearCellOp(rows_, refs_from_, pos, order) : order \in IterOrders } :
       LET erases == IsValid(pos) /\ SS_Has(rows_, pos)
       IN /\ erases => clears < MaxClears
          /\ clears' = IF erases THEN clears + 1 ELSE clears
          /\ rows_' = r.rows
          /\ refs_from_' = r.refs
          /\ last' = [NoOp EXCEPT !.op = "ClearCell", !.pos = pos,
                                  !.result = r.result, !.assert_line = r.assert_line]
          /\ UNCHANGED << storVars, walk >>

GetCell(pos) ==
    LET g == SS_GetOp(rows_, pos)
    IN /\ Idle
       /\ rows_' = g.rows
       /\ last' = [NoOp EXCEPT !.op = "GetCell", !.pos = pos, !.result = g.result,
                               !.found = g.found]
       /\ UNCHANGED << refs_from_, clears >>
       /\ UNCHANGED << storVars, walk >>

\* GetCell(pos)->GetText() on a stored cell
GetText(pos) ==
    LET g == SS_GetOp(rows_, pos)
    IN /\ Idle
       /\ IsValid(pos)
       /\ g.found
       /\ rows_' = g.rows
       /\ last' = [NoOp EXCEPT !.op = "GetText", !.pos = pos, !.found = TRUE,
                               !.text = Cell_GetText(SS_Get(g.rows, pos))]
       /\ UNCHANGED << refs_from_, clears >>
       /\ UNCHANGED << storVars, walk >>

\* Sheet::GetPrintableSize()
GetPrintableSize ==
    /\ Idle
    /\ last' = [NoOp EXCEPT !.op = "GetPrintableSize",
                            !.size = SS_GetPrintableSize(rows_)]
    /\ UNCHANGED << rows_, refs_from_, clears >>
    /\ UNCHANGED << storVars, walk >>

\* GetCell(pos)->GetValue() on a stored cell
GetValue(pos) ==
    /\ Idle
    /\ IsValid(pos)
    /\ SS_GetOp(rows_, pos).found
    /\ LET r == Cell_GetValue(SS_GetOp(rows_, pos).rows, pos)
       IN /\ rows_' = r.rows
          /\ last' = [NoOp EXCEPT !.op = "GetValue", !.pos = pos, !.value = r.value,
                                  !.evals = r.evals]
    /\ UNCHANGED << refs_from_, clears >>
    /\ UNCHANGED << storVars, walk >>

\* Sheet::PrintValues(output)
PrintValues ==
    LET r == PrintValuesOp(rows_)
    IN /\ Idle
       /\ rows_' = r.rows
       /\ last' = [NoOp EXCEPT !.op = "PrintValues", !.result = r.result,
                               !.evals = r.evals, !.output = r.output]
       /\ UNCHANGED << refs_from_, clears >>
       /\ UNCHANGED << storVars, walk >>

\* Sheet::PrintTexts(output)
PrintTexts ==
    LET r == PrintTextsOp(rows_)
    IN /\ Idle
       /\ rows_' = r.rows
       /\ last' = [NoOp EXCEPT !.op = "PrintTexts", !.result = r.result,
                               !.output = r.output]
       /\ UNCHANGED << refs_from_, clears >>
       /\ UNCHANGED << storVars, walk >>

\* the call returns: the caller takes its outcome
Return ==
    /\ ~Idle
    /\ last' = NoOp
    /\ UNCHANGED << rows_, refs_from_, clears >>
    /\ UNCHANGED << storVars, walk >>

Next ==
    \/ \E pos \in Positions, text \in Texts : SetCell(pos, text)
    \/ \E pos \in Positions : ClearCell(pos)
    \/ \E pos \in Positions : GetCell(pos)
    \/ \E pos \in Positions : GetValue(pos)
    \/ \E pos \in Positions : GetText(pos)
    \/ GetPrintableSize
    \/ PrintValues
    \/ PrintTexts
    \/ Return

Spec == Init /\ [][Next]_vars

\* the sequences of SetCell and GetValue calls only
NextNoClear ==
    \/ \E pos \in Positions, text \in Texts : SetCell(pos, text)
    \/ \E pos \in Positions : GetValue(pos)
    \/ Return

SpecNoClear == Init /\ [][NextNoClear]_vars

\* ------------------------------------------------------------------------
\* IndexedStorage used on its own
\* ------------------------------------------------------------------------

StorIndices == 0..MaxIndex
StorValues == { "x" }
sheetVars == << rows_, refs_from_, last, clears >>

\* stor[index]
StorSubscript(index) ==
    /\ stor' = IS_Subscript(stor, index, "")
    /\ islast' = [op |-> "Subscript", index |-> index, result |-> "ok",
                  value |-> stor'.data_[index]]
    /\ UNCHANGED << other, sheetVars, walk >>

\* stor[index] = value
StorAssign(index, value) ==
    /\ stor' = IS_Assign(stor, index, value, "")
    /\ islast' = [op |-> "Assign", index |-> index, result |-> "ok", value |-> value]
    /\ UNCHANGED << other, sheetVars, walk >>

\* stor.At(index)
StorAt(index) ==
    LET r == IS_At(stor, index)
    IN /\ stor' = r.st
       /\ islast' = [op |-> "At", index |-> index, result |-> r.result, value |-> r.value]
       /\ UNCHANGED << other, sheetVars, walk >>

\* std::as_const(stor).At(index)
StorAtConst(index) ==
    LET r == IS_AtConst(stor, index, "")
    IN /\ stor' = r.st
       /\ islast' = [op |-> "AtConst", index |-> index, result |-> r.result,
                     value |-> r.value]
       /\ UNCHANGED << other, sheetVars, walk >>

\* stor.Erase(index)
StorErase(index) ==
    LET r == IS_EraseOp(stor, index)
    IN /\ stor' = r.st
       /\ islast' = [NoStorOp EXCEPT !.op = "Erase", !.index = index, !.result = r.result]
       /\ UNCHANGED << other, sheetVars, walk >>

\* stor.Clear()
StorClear ==
    /\ stor' = IS_Clear(stor)
    /\ islast' = [NoStorOp EXCEPT !.op = "Clear"]
    /\ UNCHANGED << other, sheetVars, walk >>

\* stor.Swap(other)
StorSwap ==
    LET r == IS_Swap(stor, other)
    IN /\ stor' = r.a
       /\ other' = r.b
       /\ islast' = [NoStorOp EXCEPT !.op = "Swap"]
       /\ UNCHANGED << sheetVars, walk >>

NextIS ==
    \/ \E index \in StorIndices : StorSubscript(index)
    \/ \E index \in StorIndices, value \in StorValues : StorAssign(index, value)
    \/ \E index \in StorIndices : StorAt(index)
    \/ \E index \in StorIndices : StorAtConst(index)
    \/ \E index \in StorIndices : StorErase(index)
    \/ StorClear
    \/ StorSwap

SpecIS == Init /\ [][NextIS]_vars

\* ------------------------------------------------------------------------
\* The depth-first walks, one pass of the loop at a time
\* ------------------------------------------------------------------------

\* every refs_from_ map over the positions: no key has the empty set
Graphs ==
    { [v \in { x \in ValidPositions : f[x] # {} } |-> f[v]] :
        f \in [ValidPositions -> SUBSET ValidPositions] }

\* a formula cell that holds a cached value
CachedCell == [value_ |-> T_Formula("div0", {}, 1), cache_ |-> V_Err("#DIV/0!")]

RECURSIVE GridOf(_)
\* the grid with a cached formula cell at the positions of seq
GridOf(seq) ==
    IF seq = << >> THEN IS_New
    ELSE SS_Set(GridOf(Tail(seq)), Head(seq), CachedCell).rows

walkOthers == << sheetVars, storVars >>

\* InvalidateCache(pos) is entered on the graph g and the cells at S
StartInvalidateCache(g, S, pos) ==
    /\ walk.status = "idle"
    /\ walk' = [NoWalk EXCEPT !.kind = "InvalidateCache", !.status = "running",
                              !.refs = g, !.rows = GridOf(SortedSeq(S)),
                              !.pos = pos, !.queue = << pos >>]
    /\ UNCHANGED walkOthers

\* IsCircularReference(pos, ref_add, refs_del) is entered on the graph g,
\* with arguments that its assertions accept
StartIsCircularReference(g, pos, ref_add, refs_del) ==
    /\ walk.status = "idle"
    /\ pos \notin refs_del
    /\ ref_add \notin refs_del
    /\ ~HasRef(g, ref_add, pos)
    /\ walk' = [NoWalk EXCEPT !.kind = "IsCircularReference", !.status = "running",
                              !.refs = g, !.pos = pos, !.ref_add = ref_add,
                              !.refs_del = refs_del, !.queue = << pos, ref_add >>]
    /\ UNCHANGED walkOthers

\* the test of the while loop of InvalidateCache and one pass of its body
StepInvalidateCache ==
    /\ walk.status = "running"
    /\ walk.kind = "InvalidateCache"
    /\ \E order \in IterOrders :
          walk' = IF walk.queue = << >>
                  THEN [walk EXCEPT !.status = "done"]
                  ELSE LET s == IC_Step(walk.rows, walk.refs, walk.queue,
                                        walk.discovered, order)
                       IN [walk EXCEPT !.rows = s.rows, !.queue = s.queue,
                                       !.discovered = s.discovered]
    /\ UNCHANGED walkOthers

\* the test of the while loop of IsCircularReference and one pass of its body
StepIsCircularReference ==
    /\ walk.status = "running"
    /\ walk.kind = "IsCircularReference"
    /\ \E order \in IterOrders :
          walk' = IF walk.queue = << >>
                  THEN [walk EXCEPT !.status = "done", !.result = FALSE]
                  ELSE LET s == ICR_Step(walk.refs, walk.pos, walk.refs_del, walk.queue,
                                         walk.discovered, order)
                       IN IF s.found
                          THEN [walk EXCEPT !.status = "done", !.result = TRUE,
                                            !.queue = s.queue]
                          ELSE [walk EXCEPT !.queue = s.queue,
                                            !.discovered = s.discovered]
    /\ UNCHANGED walkOthers

NextWalk ==
    \/ /\ walk.status = "idle"
       /\ \E g \in Graphs, S \in SUBSET ValidPositions, pos \in ValidPositions :
             StartInvalidateCache(g, S, pos)
    \/ /\ walk.status = "idle"
       /\ \E g \in Graphs, pos \in ValidPositions, ref_add \in ValidPositions,
             refs_del \in SUBSET ValidPositions :
             StartIsCircularReference(g, pos, ref_add, refs_del)
    \/ StepInvalidateCache
    \/ StepIsCircularReference

\* a walk that has been entered runs: nothing suspends or cancels it
SpecWalk ==
    /\ Init
    /\ [][NextWalk]_vars
    /\ WF_vars(StepInvalidateCache)
    /\ WF_vars(StepIsCircularReference)

\* ------------------------------------------------------------------------
\* Definitions the properties are stated with
\* ------------------------------------------------------------------------

\* the cells the cell stored at p refers to
RefersTo(rows, p) ==
    IF SS_Has(rows, p) THEN Cell_GetReferencedCells(SS_Get(rows, p)) ELSE {}

\* the refers-to relation of the grid, as a function
RefersToMap(rows) == [p \in ValidPositions |-> RefersTo(rows, p)]

RECURSIVE CloseUnder(_, _)
\* the least set that contains S and is closed under g
CloseUnder(g, S) ==
    LET N == S \cup UNION { g[x] : x \in S \cap DOMAIN g }
    IN IF N = S THEN S ELSE CloseUnder(g, N)

\* some vertex of g reaches itself
HasCycle(g) == \E p \in DOMAIN g : p \in CloseUnder(g, g[p])

\* the vertices reachable from p over refs_from, p included
ReachableOverRefsFrom(refs, p) == CloseUnder(refs, {p})

CacheOf(rows, p) == SS_Get(rows, p).cache_

LastSetCell(l) == l.op = "SetCell"

\* ------------------------------------------------------------------------
\* Properties
\* ------------------------------------------------------------------------

\* C1: a SetCell that fails with FormulaSyntax or CircularDependency leaves
\* the grid (stored positions, contents and caches) and the refs_from graph
\* as they were before the call.
C1_FailedSetCellChangesNothing ==
    [][ (LastSetCell(last') /\ last'.result \in {"FormulaSyntax", "CircularDependency"})
        => (rows_' = rows_ /\ refs_from_' = refs_from_) ]_vars

\* a SetCell was rejected for a cycle on a sheet that holds a cached value
C1_Witness ==
    /\ LastSetCell(last) /\ last.result = "CircularDependency"
    /\ refs_from_ # EmptyMap
    /\ \E p \in StoredPositions(rows_) : CacheOf(rows_, p).t # "none"

\* C2: the refers-to relation between the cells is acyclic in every state
\* reached by SetCell and ClearCell calls from the empty sheet: no SetCell
\* that would close a cycle, a self-reference included, is committed.
C2_Acyclic ==
    /\ ~HasCycle(RefersToMap(rows_))
    /\ ~HasCycle(refs_from_)

\* a SetCell of a cell to a formula that refers to the cell itself, or to a
\* cell that refers back to it through another one, was rejected
C2_Witness ==
    /\ LastSetCell(last) /\ last.result = "CircularDependency"
    /\ \/ last.pos \in last.refs
       \/ \E q \in last.refs, r \in ValidPositions \ {last.pos} :
             /\ r \in RefersTo(rows_, q)
             /\ last.pos \in RefersTo(rows_, r)

\* C3: SetCell fails with CircularDependency only if the graph in which the
\* references of pos are replaced by those of the new formula has a cycle.
C3_NoFalseCircular ==
    [][ (LastSetCell(last') /\ last'.result = "CircularDependency")
        => HasCycle([RefersToMap(rows_) EXCEPT ![last'.pos] = last'.refs]) ]_vars

\* C4: p is in refs_from[q] exactly when the cell stored at p is a formula
\* that refers to q, and no key of refs_from maps to the empty set.
C4_GraphMatchesCells ==
    /\ DOMAIN refs_from_ \subseteq ValidPositions
    /\ \A q \in DOMAIN refs_from_ : refs_from_[q] # {} /\ refs_from_[q] \subseteq ValidPositions
    /\ \A p \in ValidPositions, q \in ValidPositions :
          HasRef(refs_from_, q, p) <=> q \in RefersTo(rows_, p)

\* a SetCell replaced a formula by one without references while another
\* formula still refers to a cell
C4_Witness ==
    /\ LastSetCell(last) /\ last.result = "ok" /\ last.refs = {}
    /\ last.pos \notin UNION { refs_from_[q] : q \in DOMAIN refs_from_ }
    /\ Cardinality(DOMAIN refs_from_) = 1
    /\ clears = 1

\* C5: right after a successful SetCell(p, text) the cell at p and every
\* cell reachable from p over refs_from hold no cached value.
C5_SetCellInvalidates ==
    (LastSetCell(last) /\ last.result = "ok")
    => \A v \in ReachableOverRefsFrom(refs_from_, last.pos) :
          SS_Has(rows_, v) => CacheOf(rows_, v).t = "none"

\* a SetCell of a cell with two transitive referrers succeeded
C5_Witness ==
    /\ LastSetCell(last) /\ last.result = "ok"
    /\ Cardinality(ReachableOverRefsFrom(refs_from_, last.pos)) = 3
    /\ \A v \in ReachableOverRefsFrom(refs_from_, last.pos) : SS_Has(rows_, v)

\* C6: after ClearCell(p) erased a cell, every formula cell that refers to p
\* directly or transitively holds no cached value.
C6_ClearCellInvalidates ==
    [][ (last'.op = "ClearCell" /\ IsValid(last'.pos) /\ SS_Has(rows_, last'.pos))
        => \A v \in ReachableOverRefsFrom(refs_from_', last'.pos) \ {last'.pos} :
              SS_Has(rows_', v) => CacheOf(rows_', v).t = "none" ]_vars

RECURSIVE FreshValue(_, _)
RECURSIVE FreshExecute(_, _, _)

\* the value of the cell stored at pos, evaluated without any cache
FreshValue(rows, pos) ==
    LET cell == SS_Get(rows, pos)
    IN IF cell.value_.k = "empty" THEN V_Str(<< >>)
       ELSE IF cell.value_.k = "text" THEN V_Str(TextValue(cell.value_.s))
       ELSE IF cell.value_.op = "div0" THEN V_Err("#DIV/0!")
       ELSE FreshExecute(rows, SortedSeq(cell.value_.refs), cell.value_.c)

FreshExecute(rows, seq, acc) ==
    IF seq = << >> THEN V_Num(acc)
    ELSE IF ~SS_Has(rows, Head(seq)) THEN FreshExecute(rows, Tail(seq), acc)
    ELSE LET v == FreshValue(rows, Head(seq))
         IN IF v.t = "num" THEN FreshExecute(rows, Tail(seq), acc + v.n)
            ELSE IF v.t = "err" THEN v
            ELSE IF v.s = << >> THEN FreshExecute(rows, Tail(seq), acc)
            ELSE IF IsNumber(v.s) THEN FreshExecute(rows, Tail(seq), acc + ToNumber(v.s))
            ELSE V_Err("#VALUE!")

\* C7: in the sequences of SetCell and GetValue calls, GetValue of a formula
\* cell returns what an evaluation without caches returns on the current
\* sheet, and so does every cached value.
C7_GetValueIsFresh ==
    /\ (last.op = "GetValue" /\ SS_Get(rows_, last.pos).value_.k = "formula")
       => last.value = FreshValue(rows_, last.pos)
    /\ \A p \in StoredPositions(rows_) :
          CacheOf(rows_, p).t # "none" => CacheOf(rows_, p) = FreshValue(rows_, p)

\* A1 holds "4", B1 holds "=A1+3", A2 holds "=B1+3" and GetValue(A2) is 10
C7_Witness ==
    /\ last.op = "GetValue" /\ last.pos = A2 /\ last.value = V_Num(10)
    /\ SS_Has(rows_, A1) /\ SS_Get(rows_, A1).value_ = T_Text(<< "4" >>)
    /\ RefersTo(rows_, B1) = {A1}
    /\ RefersTo(rows_, A2) = {B1}

\* C8: after a successful SetCell(pos, formula) every cell the formula refers
\* to is stored; one that was not stored before is Empty; the recursive
\* SetCell calls that store them change no edge of refs_from and do not
\* recurse again.
C8_Placeholders ==
    [][ (LastSetCell(last') /\ last'.result = "ok")
        => /\ \A r \in last'.refs :
                /\ SS_Has(rows_', r)
                /\ ~SS_Has(rows_, r) => SS_Get(rows_', r) = NewCell
           /\ ~last'.nested_edges
           /\ last'.depth <= 1 ]_vars

\* a formula that refers to two cells was set and SetCell called itself for
\* a cell that is now Empty
C8_Witness ==
    /\ LastSetCell(last) /\ last.result = "ok" /\ last.depth = 1
    /\ Cardinality(last.refs) = 2
    /\ \E r \in last.refs : SS_Has(rows_, r) /\ SS_Get(rows_, r).value_ = T_Empty

\* the sheet after SetCell(A1, "=A2") on a fresh sheet (no set of this call
\* has two elements, so every iteration order gives the same)
AfterA1RefersToA2 ==
    SetCellOp(IS_New, EmptyMap, A1, T_Formula("sum", {A2}, 3), 0, SortedSeq(ValidPositions))

\* on that sheet, the step is SetCell(A2, formula that refers to A1)
C9_Scenario ==
    /\ rows_ = AfterA1RefersToA2.rows
    /\ refs_from_ = AfterA1RefersToA2.refs
    /\ LastSetCell(last') /\ last'.pos = A2 /\ last'.refs = {A1}

\* C9 as claimed: the second call fails with CircularDependency and
\* afterwards GetCell(A2) is null.
C9_Original ==
    [][ C9_Scenario => (last'.result = "CircularDependency" /\ ~SS_Has(rows_', A2)) ]_vars

\* C9 as amended: the second call fails with CircularDependency and changes
\* nothing; GetCell(A2) is the Empty cell the first call stored.
C9_Amended ==
    [][ C9_Scenario
        => /\ last'.result = "CircularDependency"
           /\ rows_' = rows_ /\ refs_from_' = refs_from_
           /\ SS_Has(rows_', A2) /\ SS_Get(rows_', A2) = NewCell ]_vars

\* SetCell(A2, "=A1") was rejected on the sheet left by SetCell(A1, "=A2")
C9_Witness ==
    /\ LastSetCell(last) /\ last.pos = A2 /\ last.refs = {A1}
    /\ last.result = "CircularDependency"
    /\ rows_ = AfterA1RefersToA2.rows
    /\ refs_from_ = AfterA1RefersToA2.refs

\* C10: SetCell, GetCell and ClearCell with a position that is not valid
\* fail with InvalidPosition whatever the text is, and change nothing.
C10_InvalidPosition ==
    [][ (last'.op \in {"SetCell", "GetCell", "ClearCell"} /\ ~IsValid(last'.pos))
        => /\ last'.result = "InvalidPosition"
           /\ rows_' = rows_ /\ refs_from_' = refs_from_ ]_vars

\* the content of every stored cell
Contents(rows) == [p \in StoredPositions(rows) |-> SS_Get(rows, p).value_]

\* the step is SetCell(pos, t) on a sheet as a successful SetCell(pos, t)
\* leaves it (the cell at pos holds t and the cells it refers to are stored):
\* it succeeded and the content at pos is the same, or it was rejected for a
\* cycle and its references are those of the formula stored at pos
C11_SecondSet ==
    /\ LastSetCell(last') /\ IsValid(last'.pos) /\ SS_Has(rows_, last'.pos)
    /\ \A r \in RefersTo(rows_, last'.pos) : SS_Has(rows_, r)
    /\ \/ /\ last'.result = "ok"
          /\ SS_Get(rows_', last'.pos).value_ = SS_Get(rows_, last'.pos).value_
       \/ /\ last'.result = "CircularDependency"
          /\ last'.refs = RefersTo(rows_, last'.pos)

\* C11: SetCell(p, t) on a sheet where SetCell(p, t) has succeeded completes
\* successfully and leaves refs_from, the stored cells with their contents
\* and the printable size as they were.
C11_Idempotent ==
    [][ C11_SecondSet
        => /\ last'.result = "ok" /\ last'.assert_line = 0
           /\ refs_from_' = refs_from_
           /\ Contents(rows_') = Contents(rows_)
           /\ SS_GetPrintableSize(rows_') = SS_GetPrintableSize(rows_) ]_vars

\* C12: ClearCell(p) at a valid position never fails; when a cell is stored
\* at p it erases the cell and removes p from refs_from[r] for the cells r it
\* referred to, and nothing else changes; when none is stored nothing changes.
C12_ClearCellFrame ==
    [][ (last'.op = "ClearCell" /\ IsValid(last'.pos))
        => /\ last'.result = "ok" /\ last'.assert_line = 0
           /\ IF SS_Has(rows_, last'.pos)
              THEN /\ StoredPositions(rows_') = StoredPositions(rows_) \ {last'.pos}
                   /\ \A q \in StoredPositions(rows_') : SS_Get(rows_', q) = SS_Get(rows_, q)
                   /\ \A q \in ValidPositions, p \in ValidPositions :
                         HasRef(refs_from_', q, p)
                         <=> /\ HasRef(refs_from_, q, p)
                             /\ ~(p = last'.pos /\ q \in RefersTo(rows_, last'.pos))
                   /\ \A q \in DOMAIN refs_from_' : refs_from_'[q] # {}
              ELSE rows_' = rows_ /\ refs_from_' = refs_from_ ]_vars

\* A1 and A2 referred to B1 and ClearCell(A1) left refs_from[B1] = {A2}
C12_Witness ==
    /\ last.op = "ClearCell" /\ last.pos = A1 /\ last.result = "ok"
    /\ ~SS_Has(rows_, A1)
    /\ refs_from_ = (B1 :> {A2})
    /\ RefersTo(rows_, A2) = {B1}

\* C19: no assertion of UpdateRefs fails in a SetCell or ClearCell call.
C19_NoAssertFails ==
    (last.op \in {"SetCell", "ClearCell"}) => last.assert_line = 0

\* ------------------------------------------------------------------------
\* Printable size
\* ------------------------------------------------------------------------

\* 1 + the largest row and 1 + the largest column of the positions in S,
\* and {0,0} for no position
SizeOver(S) ==
    IF S = {} THEN [rows |-> 0, cols |-> 0]
    ELSE [rows |-> 1 + (CHOOSE r \in { p.row : p \in S } : \A p \in S : p.row <= r),
          cols |-> 1 + (CHOOSE c \in { p.col : p \in S } : \A p \in S : p.col <= c)]

\* C13: in every state GetPrintableSize returns 1 + the largest row and
\* 1 + the largest column of the stored cells, and {0,0} exactly when no cell
\* is stored; a ClearCell that erases a cell leaves the size of the cells
\* that remain.
C13_PrintableSize ==
    /\ [](/\ SS_GetPrintableSize(rows_) = SizeOver(StoredPositions(rows_))
          /\ (SS_GetPrintableSize(rows_) = [rows |-> 0, cols |-> 0]
                <=> StoredPositions(rows_) = {}))
    /\ [][ (last'.op = "ClearCell" /\ IsValid(last'.pos) /\ SS_Has(rows_, last'.pos))
           => SS_GetPrintableSize(rows_')
                = SizeOver(StoredPositions(rows_) \ {last'.pos}) ]_vars

\* ClearCell(A2) has erased the only cell of row 1 and the size has shrunk
\* to the one row that is left
C13_Witness ==
    /\ last.op = "ClearCell" /\ last.pos = A2 /\ clears = 1
    /\ StoredPositions(rows_) = {A1, B1}
    /\ rows_.indices_ = << 0 >>
    /\ SS_GetPrintableSize(rows_) = [rows |-> 1, cols |-> 2]
    /\ \A p \in {A1, B1} : SS_Get(rows_, p).value_.k = "text"

\* the stored cells whose content is a text or a formula
NonEmptyPositions(rows) ==
    { p \in StoredPositions(rows) : SS_Get(rows, p).value_.k # "empty" }

\* the box of the given size contains the position
InBox(size, p) == p.row < size.rows /\ p.col < size.cols

\* C14 as stated: the printable size is the minimal bounding box of the
\* cells whose content is a text or a formula; Empty cells do not count.
C14_Original ==
    SS_GetPrintableSize(rows_) = SizeOver(NonEmptyPositions(rows_))

\* C14 amended: the printable size is the minimal bounding box anchored at
\* (0,0) of every stored cell, and Empty cells are stored and count: the box
\* contains every stored cell, its last row and its last column hold a
\* stored cell, and after a successful SetCell(p, t) it contains p, also for
\* the empty t, and every position that t refers to.
C14_Amended ==
    /\ [](LET size == SS_GetPrintableSize(rows_)
               S == StoredPositions(rows_)
           IN /\ \A p \in S : InBox(size, p)
              /\ size.rows > 0 => \E p \in S : p.row = size.rows - 1
              /\ size.cols > 0 => \E p \in S : p.col = size.cols - 1
              /\ size.rows >= 0 /\ size.cols >= 0)
    /\ [][ (LastSetCell(last') /\ last'.result = "ok")
           => /\ InBox(SS_GetPrintableSize(rows_'), last'.pos)
              /\ \A r \in last'.refs : InBox(SS_GetPrintableSize(rows_'), r) ]_vars

\* the formula at A1 refers to A2, where only the Empty placeholder is
\* stored, and the placeholder gives the printable size its second row
C14_Witness ==
    /\ StoredPositions(rows_) = {A1, A2}
    /\ SS_Get(rows_, A1).value_.k = "formula"
    /\ SS_Get(rows_, A2).value_.k = "empty"
    /\ SS_GetPrintableSize(rows_) = [rows |-> 2, cols |-> 1]
    /\ SizeOver(NonEmptyPositions(rows_)) = [rows |-> 1, cols |-> 1]

\* ------------------------------------------------------------------------
\* IndexedStorage
\* ------------------------------------------------------------------------

\* the two sides of a storage hold the same keys, indices_ ascending
IS_Consistent(st) ==
    /\ { st.indices_[k] : k \in 1..Len(st.indices_) } = DOMAIN st.data_
    /\ Len(st.indices_) = Cardinality(DOMAIN st.data_)
    /\ \A j, k \in 1..Len(st.indices_) : j < k => st.indices_[j] < st.indices_[k]

\* C15: after any sequence of operator[], At, Erase, Clear and Swap the
\* hash side and the index list of a storage hold the same key set with equal
\* cardinality, the index list is strictly ascending, and the iteration
\* yields each present (index, value) once in ascending order of the index.
C15_SidesAgree ==
    /\ IS_Consistent(stor)
    /\ IS_Consistent(other)
    /\ LET items == IS_Items(stor)
       IN /\ { items[k] : k \in 1..Len(items) }
                = { << i, stor.data_[i] >> : i \in DOMAIN stor.data_ }
          /\ Len(items) = IS_Size(stor)
          /\ \A j, k \in 1..Len(items) : j < k => items[j][1] < items[k][1]

\* the last call was operator[] on index 0, which it has inserted with the
\* default value; the iteration yields it before index 2, and the storage
\* that was swapped away holds a key as well
C15_Witness ==
    /\ islast.op = "Subscript" /\ islast.index = 0
    /\ IS_Items(stor) = << << 0, "" >>, << 2, "x" >> >>
    /\ IS_Size(other) = 1

\* C16: At(index) of an absent index fails with a not-found error through
\* the overload for a storage that can be modified and through the const
\* overload, and leaves the storage as it was; At of a present index returns
\* the stored value.
C16_AtNotFound ==
    [][ (islast'.op \in {"At", "AtConst"})
        => IF IS_Count(stor, islast'.index) = 0
           THEN islast'.result = "NotFound" /\ stor' = stor
           ELSE /\ islast'.result = "ok" /\ stor' = stor
                /\ islast'.value = stor.data_[islast'.index] ]_vars

\* the storage without the key index
IS_Without(st, index) ==
    [data_ |-> [i \in (DOMAIN st.data_) \ {index} |-> st.data_[i]],
     indices_ |-> SelectSeq(st.indices_, LAMBDA i : i # index)]

RECURSIVE EraseAll(_, _)
\* Erase of every index of seq, in this order
EraseAll(st, seq) ==
    IF seq = << >> THEN st
    ELSE LET r == IS_EraseOp(st, Head(seq))
         IN IF r.result = "ok" THEN EraseAll(r.st, Tail(seq)) ELSE r.st

\* the orders in which the keys of a storage can be listed once each
Orders(st) ==
    { seq \in [1..IS_Size(st) -> DOMAIN st.data_] :
        \A j, k \in 1..IS_Size(st) : j # k => seq[j] # seq[k] }

\* C17: Erase(index) of a present index removes this key from both sides
\* (Count becomes 0, Size decreases by 1, the other keys and values are
\* unchanged); of an absent index it fails with a not-found error and changes
\* nothing; erasing every key of a storage once, in any order, leaves it
\* empty.
C17_Erase ==
    /\ [][ (islast'.op = "Erase")
           => IF IS_Count(stor, islast'.index) > 0
              THEN /\ islast'.result = "ok"
                   /\ IS_Count(stor', islast'.index) = 0
                   /\ IS_Size(stor') = IS_Size(stor) - 1
                   /\ Len(stor'.indices_) = Len(stor.indices_) - 1
                   /\ stor' = IS_Without(stor, islast'.index)
              ELSE islast'.result = "NotFound" /\ stor' = stor ]_vars
    /\ [](\A seq \in Orders(stor) :
            LET e == EraseAll(stor, seq)
            IN IS_Empty(e) /\ e.indices_ = << >> /\ IS_Size(e) = 0)

\* Erase(1) has removed the middle one of three keys
C17_Witness ==
    /\ islast.op = "Erase" /\ islast.index = 1 /\ islast.result = "ok"
    /\ stor.indices_ = << 0, 2 >>
    /\ DOMAIN stor.data_ = {0, 2}
    /\ stor.data_[0] = "x" /\ stor.data_[2] = ""

\* ------------------------------------------------------------------------
\* The cache of a formula cell
\* ------------------------------------------------------------------------

\* the stored cells that hold a formula
FormulaPositions(rows) ==
    { p \in StoredPositions(rows) : SS_Get(rows, p).value_.k = "formula" }

\* C18: a formula cell is evaluated at most once between invalidations. A
\* GetValue right after a GetValue of the same formula cell returns the same
\* value and does not call Evaluate; a GetValue that finds a cached value
\* returns it, evaluates nothing and changes no cell; a cached value stays
\* over every step that is not a SetCell while its cell is stored; an
\* evaluation error is returned as a value and is cached like a number.
C18_EvaluatedOnce ==
    /\ [](\A p \in FormulaPositions(rows_) :
            LET r1 == Cell_GetValue(rows_, p)
                r2 == Cell_GetValue(r1.rows, p)
            IN /\ r2.value = r1.value /\ r2.evals = 0 /\ r2.rows = r1.rows
               /\ r1.value.t \in {"num", "err"}
               /\ SS_Get(r1.rows, p).cache_ = r1.value)
    /\ [][ (last'.op = "GetValue" /\ last'.pos \in FormulaPositions(rows_))
           => /\ last'.result = "ok"
              /\ SS_Get(rows_', last'.pos).cache_ = last'.value
              /\ (SS_Get(rows_, last'.pos).cache_.t # "none"
                    => /\ last'.value = SS_Get(rows_, last'.pos).cache_
                       /\ last'.evals = 0
                       /\ rows_' = rows_) ]_vars
    /\ [][ (last'.op # "SetCell")
           => \A p \in FormulaPositions(rows_) \cap StoredPositions(rows_') :
                 SS_Get(rows_, p).cache_.t # "none"
                 => SS_Get(rows_', p).cache_ = SS_Get(rows_, p).cache_ ]_vars

\* GetValue has returned the cached error of a division by zero without an
\* evaluation
C18_Witness ==
    /\ last.op = "GetValue" /\ last.pos = A1 /\ last.evals = 0
    /\ last.value = V_Err("#DIV/0!")
    /\ SS_Get(rows_, A1).value_ = T_Formula("div0", {}, 1)
    /\ SS_Get(rows_, A1).cache_ = V_Err("#DIV/0!")

\* ------------------------------------------------------------------------
\* Termination of the walks
\* ------------------------------------------------------------------------

\* C20: the walks of IsCircularReference and InvalidateCache terminate on
\* every refs_from_ graph, also on one that contains a cycle; when
\* InvalidateCache stops, no cell at a position reachable from its start
\* position holds a cached value; the walks return what IsCircularReference
\* and InvalidateCache compute, in whatever order the sets of referrers are
\* iterated.
C20_WalksTerminate ==
    /\ (walk.status = "running") ~> (walk.status = "done")
    /\ [](walk.status = "done" /\ walk.kind = "InvalidateCache"
            => /\ \A v \in ReachableOverRefsFrom(walk.refs, walk.pos) :
                     SS_Has(walk.rows, v) => CacheOf(walk.rows, v) = V_None
               /\ \A order \in IterOrders :
                     walk.rows = InvalidateCache(
                                     GridOf(SortedSeq(StoredPositions(walk.rows))),
                                     walk.refs, walk.pos, order))
    /\ [](walk.status = "done" /\ walk.kind = "IsCircularReference"
            => \A order \in IterOrders :
                  walk.result = IsCircularReference(walk.refs, walk.pos, walk.ref_add,
                                                    walk.refs_del, order))

\* InvalidateCache(A1) has stopped on a graph with the cycle A1, B1 and
\* has invalidated both cells; the cell at A2, which is not reachable, keeps
\* its cached value
C20_Witness ==
    /\ walk.status = "done" /\ walk.kind = "InvalidateCache" /\ walk.pos = A1
    /\ walk.refs = (A1 :> {B1}) @@ (B1 :> {A1})
    /\ HasCycle(walk.refs)
    /\ StoredPositions(walk.rows) = {A1, B1, A2}
    /\ CacheOf(walk.rows, A1) = V_None /\ CacheOf(walk.rows, B1) = V_None
    /\ CacheOf(walk.rows, A2) # V_None

\* ------------------------------------------------------------------------
\* Frame conditions
\* ------------------------------------------------------------------------

\* the positions that the cell at p refers to, directly or through other
\* cells, p included
RefersToClosure(rows, p) == CloseUnder(RefersToMap(rows), {p})

\* C21: GetValue, GetText, GetCell and GetPrintableSize change nothing but
\* formula caches: the stored positions, the rows of the grid, the content of
\* every cell, refs_from_ and the printable size stay; GetText, GetCell and
\* GetPrintableSize change no cache either, and GetValue changes a cache only
\* by filling the empty cache of a formula cell that is the queried cell or
\* one it refers to, directly or through other cells.
C21_ReadsChangeCachesOnly ==
    [][ (last'.op \in {"GetValue", "GetText", "GetCell", "GetPrintableSize"})
        => /\ StoredPositions(rows_') = StoredPositions(rows_)
           /\ rows_'.indices_ = rows_.indices_
           /\ DOMAIN rows_'.data_ = DOMAIN rows_.data_
           /\ Contents(rows_') = Contents(rows_)
           /\ refs_from_' = refs_from_
           /\ SS_GetPrintableSize(rows_') = SS_GetPrintableSize(rows_)
           /\ IF last'.op = "GetValue"
              THEN \A p \in StoredPositions(rows_) :
                      CacheOf(rows_', p) # CacheOf(rows_, p)
                      => /\ p \in RefersToClosure(rows_, last'.pos)
                         /\ SS_Get(rows_, p).value_.k = "formula"
                         /\ CacheOf(rows_, p) = V_None
                         /\ CacheOf(rows_', p) # V_None
              ELSE rows_' = rows_ ]_vars

\* GetValue(A1) has evaluated the formula at A1 and the formula at B1 that
\* it refers to and has filled both caches; the formula at A2, which A1 does
\* not refer to, is still without a cached value
C21_Witness ==
    /\ last.op = "GetValue" /\ last.pos = A1 /\ last.evals = 2
    /\ StoredPositions(rows_) = {A1, B1, A2}
    /\ RefersTo(rows_, A1) = {B1}
    /\ \A p \in {A1, B1, A2} : SS_Get(rows_, p).value_.k = "formula"
    /\ CacheOf(rows_, A1) # V_None /\ CacheOf(rows_, B1) # V_None
    /\ CacheOf(rows_, A2) = V_None

\* C22: a successful SetCell(pos, text) changes the content at pos and stores
\* an Empty cell at every position the new formula refers to that held no
\* cell; the content of every other cell is unchanged. In refs_from_ it adds
\* pos to the sets of the newly referenced positions and removes it from the
\* sets of the positions no longer referenced; every edge whose referrer is
\* not pos, and every edge of pos to a position referenced before and after,
\* is unchanged.
C22_SetCellFrame ==
    [][ (LastSetCell(last') /\ last'.result = "ok")
        => LET pos == last'.pos
               new_refs == last'.refs
               old_refs == RefersTo(rows_, pos)
               before == StoredPositions(rows_)
               after == StoredPositions(rows_')
           IN /\ after = before \cup {pos} \cup new_refs
              /\ RefersTo(rows_', pos) = new_refs
              /\ \A q \in before \ {pos} :
                    SS_Get(rows_', q).value_ = SS_Get(rows_, q).value_
              /\ \A q \in (after \ before) \ {pos} :
                    q \in new_refs /\ SS_Get(rows_', q).value_ = T_Empty
              /\ \A r \in ValidPositions, q \in ValidPositions :
                    HasRef(refs_from_', r, q)
                    <=> IF q # pos THEN HasRef(refs_from_, r, q)
                        ELSE \/ r \in new_refs \ old_refs
                             \/ HasRef(refs_from_, r, q) /\ r \notin old_refs \ new_refs
              /\ DOMAIN refs_from_' \subseteq ValidPositions ]_vars

\* SetCell(A1, "=A2+3") has succeeded where A2 held no cell: a nested call
\* has stored an Empty cell at A2, A1 has been added to the referrers of A2,
\* and the formula at B1 and its edge to A2 are as they were
C22_Witness ==
    /\ LastSetCell(last) /\ last.pos = A1 /\ last.result = "ok" /\ last.refs = {A2}
    /\ last.depth = 1
    /\ refs_from_ = (A2 :> {A1, B1})
    /\ SS_Get(rows_, A2).value_ = T_Empty
    /\ RefersTo(rows_, B1) = {A2}
    /\ RefersTo(rows_, A1) = {A2}

\* ------------------------------------------------------------------------
\* Referenced cells and row containers
\* ------------------------------------------------------------------------

\* C23: in every state every position that a stored formula cell refers to
\* holds a cell, and every key of refs_from_ is a stored position.
C23_ReferencedCellsStored ==
    /\ \A p \in StoredPositions(rows_) : \A r \in RefersTo(rows_, p) : SS_Has(rows_, r)
    /\ DOMAIN refs_from_ \subseteq StoredPositions(rows_)

\* the columns that each row of the grid holds
RowKeys(rows) == [i \in DOMAIN rows.data_ |-> DOMAIN rows.data_[i].data_]

\* C24: the grid holds no empty row: a row key is in rows_ exactly when a
\* cell is stored in that row; a call that gets a cell (GetCell, GetText,
\* GetValue) inserts no row and no column; a ClearCell that erases the last
\* cell of a row erases the row.
C24_NoEmptyRow ==
    /\ [](/\ \A i \in DOMAIN rows_.data_ : ~IS_Empty(rows_.data_[i])
          /\ DOMAIN rows_.data_ = { p.row : p \in StoredPositions(rows_) }
          /\ { rows_.indices_[k] : k \in 1..Len(rows_.indices_) } = DOMAIN rows_.data_)
    /\ [][ (last'.op \in {"GetCell", "GetText", "GetValue"})
           => /\ RowKeys(rows_') = RowKeys(rows_)
              /\ rows_'.indices_ = rows_.indices_ ]_vars
    /\ [][ (/\ last'.op = "ClearCell" /\ IsValid(last'.pos) /\ SS_Has(rows_, last'.pos)
            /\ IS_Size(rows_.data_[last'.pos.row]) = 1)
           => /\ IS_Count(rows_', last'.pos.row) = 0
              /\ IS_Size(rows_') = IS_Size(rows_) - 1 ]_vars

\* ClearCell(A1) has erased a cell and row 0 with it: the grid holds row 1
\* only, with the cell at A2
C24_Witness ==
    /\ last.op = "ClearCell" /\ last.pos = A1 /\ clears = 1
    /\ rows_.indices_ = << 1 >>
    /\ DOMAIN rows_.data_ = {1}
    /\ StoredPositions(rows_) = {A2}
    /\ SS_Get(rows_, A2).value_.k = "text"

====
